---- MODULE Spec2Model ----
(***************************************************************************)
(* TACO card battle: the turn engine of src/app/game/page.tsx and the      *)
(* GameResults ledger contract (src/contracts/GameResults.sol, and its     *)
(* ungated predecessor src/unnamed/part_000).                              *)
(*                                                                         *)
(* The battle state is the React state object `state` of GamePage.  One    *)
(* action is one event-loop task: a click handler up to its first await,   *)
(* or the continuation of playCard after a timer or the fetch resolves.    *)
(* The setState calls of one task are committed together (React batches    *)
(* them and re-renders before the next event is dispatched).               *)
(* Presentation-only fields (log text, sprite animations, bossShaking,     *)
(* turnPhase) are not part of the model.                                   *)
(***************************************************************************)
EXTENDS Integers, Sequences, FiniteSets, TLC

VARIABLES
    phase,        \* "lobby" | "battle"                      (page.tsx:314)
    selectedChar, \* "kael" | "lyra"                         (page.tsx:315)
    state,        \* GameState                               (page.tsx:318)
    turns,        \* playCard invocations suspended at an await
    rerollPool,   \* the cardPool captured by the memoized reroll callback
    aborted,      \* number of playCard invocations rejected by a failed fetch
    last,         \* the task that ran last, with the result submissions it issued
    call,         \* a pending direct call of an exported pure function
    ret,          \* what that call returned
    variant,      \* the deployed contract: "gated" (GameResults.sol) | "open" (part_000)
    playerStats,  \* mapping(address => Stats)
    balances,     \* mapping(address => uint256), gated contract only
    holdings,     \* the ether the contract holds
    frames,       \* withdraw calls suspended in their ether transfer, innermost first
    tx,           \* the contract call that ended last, with its outcome
    ttsEnabled,   \* the Voice ON / Voice OFF switch                (page.tsx:322)
    logLen,       \* state.log.length, which the speech effect watches
    fetching,     \* speak calls waiting for their /api/tts response
    currentAudio, \* "null" | "playing" | "silent": the module variable of
                  \* page.tsx:269, by what the audio it refers to is doing
    strays,       \* audios created by speak that play without being currentAudio
    balance,      \* the player's displayed balance, in units of 0.005 A0GI (page.tsx:329)
    depositing,   \* handleDeposit is under way                       (page.tsx:330)
    withdrawing,  \* handleWithdraw is under way                      (page.tsx:331)
    recordings    \* POST /api/game/record requests in flight, by the `won` they carry

\* the voice of the page: the log length and the state of speak
voiceVars == <<ttsEnabled, logLen, fetching, currentAudio, strays>>
battleVars == <<phase, selectedChar, state, turns, rerollPool, aborted, last, voiceVars>>
pureVars == <<call, ret>>
ledgerVars == <<variant, playerStats, balances, holdings, frames, tx>>
\* what the page's tasks leave alone
others == <<pureVars, ledgerVars>>
\* the wallet panel of the page and the result submissions on their way
walletVars == <<balance, depositing, withdrawing, recordings>>
vars == <<battleVars, others, walletVars>>
\* the page without its voice
pageVars == <<phase, selectedChar, state, turns, rerollPool, aborted, last>>

----------------------------------------------------------------------------
(* Bounds of the model *)

\* Math.random() is drawn from n points of [0,1), one in each of n equal
\* strata: n = HandGrid for a card draw (the point just below the top of the
\* stratum), n = DmgGrid for a boss damage roll (the midpoint of the stratum).
\* Two strata draw berserk_rage and the character's shield card; one stratum
\* rolls a damage of 15.
HandGrid == 2
DmgGrid == 1
\* tax_peasantry is not played once it would lift gold above MaxGold
MaxGold == 50
\* the gold values 0 .. MaxCallGold are passed to resolveCardEffect called directly
MaxCallGold == 6
\* deposit() is sent 0 .. MaxDeposit units of ether
MaxDeposit == 2
\* deposits are explored while the contract holds at most MaxHoldings units
MaxHoldings == 5
\* games recorded, over all players
MaxGames == 2
\* withdraw calls nested through re-entrant transfers
MaxDepth == 2
\* with the voice modelled, a match is explored while its log has at most
\* MaxLogLen lines
MaxLogLen == 9
\* /api/tts requests in flight at a time
MaxFetching == 2
\* audios left playing without a reference
MaxStrays == 1

\* result submissions in flight at a time
MaxRecordings == 1

----------------------------------------------------------------------------
(* Constants of page.tsx *)

HAND_SIZE == 3
REROLL_COST == 5
BOSS_MIN_DMG == 10
BOSS_MAX_DMG == 20

SHARED_CARDS == <<"clerics_prayer", "tax_peasantry", "berserk_rage">>

CHARACTER_CARDS ==
    [kael |-> SHARED_CARDS \o <<"iron_judgment", "fortress_stance">>,
     lyra |-> SHARED_CARDS \o <<"phantom_strike", "smoke_veil">>]

CharacterId == {"kael", "lyra"}

CardType == {"knights_strike", "clerics_prayer", "shield_wall", "berserk_rage",
             "tax_peasantry", "iron_judgment", "fortress_stance",
             "phantom_strike", "smoke_veil"}

----------------------------------------------------------------------------
(* Pure helpers *)

Max2(a, b) == IF a >= b THEN a ELSE b
Min2(a, b) == IF a <= b THEN a ELSE b

\* mutant: the lower bound is not applied
clampNoFloor(val, lo, hi) == Min2(hi, val)

\* mutant: the upper bound is not applied
clampNoCeiling(val, lo, hi) == Max2(lo, val)

clamp(val, lo, hi) == Max2(lo, Min2(hi, val))

\* values of Math.random() on a grid of g strata, as <<numerator, denominator>>:
\* the midpoints (2k+1)/(2g)
RandomValues(g) == {<<2 * k + 1, 2 * g>> : k \in 0 .. g - 1}

\* values of Math.random() just below the top of each of g strata,
\* (k+1)/g - 1/(16g): they floor like any draw just below (k+1)/g once
\* multiplied by a pool length of at most 16
RandomTopValues(g) == {<<16 * (k + 1) - 1, 16 * g>> : k \in 0 .. g - 1}

\* Math.floor(Math.random() * n)
RandomFloor(r, n) == (r[1] * n) \div r[2]

\* sampleHand: HAND_SIZE independent draws pool[floor(random * pool.length)]
sampleHand(pool) ==
    {[i \in 1 .. HAND_SIZE |-> pool[RandomFloor(r[i], Len(pool)) + 1]] :
        r \in [1 .. HAND_SIZE -> RandomTopValues(HandGrid)]}

\* the raw damages of a boss attack
BossRawDmg ==
    {RandomFloor(r, BOSS_MAX_DMG - BOSS_MIN_DMG + 1) + BOSS_MIN_DMG :
        r \in RandomValues(DmgGrid)}

\* {...s, ...upd}
Merge(s, upd) == [f \in DOMAIN s |-> IF f \in DOMAIN upd THEN upd[f] ELSE s[f]]

Pick(s, fields) == [f \in fields |-> s[f]]

BattleFields == {"heroHp", "bossHp", "gold", "isShielded", "fullShield"}

FizzleLog == "Phantom Strike fizzles... not enough Gold!"

\* mutant: the gold test is strict, so exactly 5 gold does not pay for the strike
phantomStrikeStrictGold(base, current) ==
    IF current.gold > 5
    THEN [base EXCEPT !.gold = current.gold - 5,
                      !.bossHp = clamp(current.bossHp - 25, 0, 100),
                      !.log = "Phantom Strike deals 25 damage! (-5 Gold)",
                      !.bossDamaged = TRUE]
    ELSE [base EXCEPT !.log = FizzleLog]

\* mutant: the strike takes its 5 gold whether or not the hero has it
phantomStrikeAlwaysPays(base, current) ==
    [base EXCEPT !.gold = current.gold - 5,
                 !.bossHp = clamp(current.bossHp - 25, 0, 100),
                 !.log = "Phantom Strike deals 25 damage! (-5 Gold)",
                 !.bossDamaged = TRUE]

\* case "phantom_strike" of resolveCardEffect
phantomStrike(base, current) ==
    IF current.gold >= 5
    THEN [base EXCEPT !.gold = current.gold - 5,
                      !.bossHp = clamp(current.bossHp - 25, 0, 100),
                      !.log = "Phantom Strike deals 25 damage! (-5 Gold)",
                      !.bossDamaged = TRUE]
    ELSE [base EXCEPT !.log = FizzleLog]

resolveCardEffect(card, current) ==
    LET base == [heroHp |-> current.heroHp, bossHp |-> current.bossHp,
                 gold |-> current.gold, isShielded |-> current.isShielded,
                 fullShield |-> current.fullShield, log |-> "", bossDamaged |-> FALSE]
    IN CASE card = "knights_strike" ->
              [base EXCEPT !.bossHp = clamp(current.bossHp - 15, 0, 100),
                           !.log = "Knight's Strike hits the Overlord for 15 damage!",
                           !.bossDamaged = TRUE]
         [] card = "clerics_prayer" ->
              [base EXCEPT !.heroHp = clamp(current.heroHp + 15, 0, 100),
                           !.log = "Cleric's Prayer restores 15 HP."]
         [] card = "shield_wall" ->
              [base EXCEPT !.isShielded = TRUE, !.fullShield = FALSE,
                           !.log = "Shield Wall raised! Next attack blocked 50%."]
         [] card = "berserk_rage" ->
              [base EXCEPT !.bossHp = clamp(current.bossHp - 30, 0, 100),
                           !.heroHp = clamp(current.heroHp - 10, 0, 100),
                           !.log = "Berserk Rage! 30 damage to Overlord, 10 to self!",
                           !.bossDamaged = TRUE]
         [] card = "tax_peasantry" ->
              [base EXCEPT !.gold = current.gold + 15,
                           !.log = "Tax Peasantry collects 15 Gold."]
         [] card = "iron_judgment" ->
              [base EXCEPT !.bossHp = clamp(current.bossHp - 20, 0, 100),
                           !.log = "Iron Judgment crashes down for 20 damage!",
                           !.bossDamaged = TRUE]
         [] card = "fortress_stance" ->
              [base EXCEPT !.isShielded = TRUE, !.fullShield = FALSE,
                           !.heroHp = clamp(current.heroHp + 5, 0, 100),
                           !.log = "Fortress Stance! Shield raised and 5 HP restored."]
         [] card = "phantom_strike" -> phantomStrike(base, current)
         [] card = "smoke_veil" ->
              [base EXCEPT !.isShielded = TRUE, !.fullShield = TRUE,
                           !.log = "Smoke Veil! Next attack fully blocked."]
         [] OTHER -> base

\* mutant: a half shield rounds the halved damage up
actualDmgRoundsUp(rawDmg, current) ==
    IF current.isShielded
    THEN IF current.fullShield THEN 0 ELSE (rawDmg + 1) \div 2
    ELSE rawDmg

\* the damage the boss attack applies, from the raw roll and the shield flags
actualDmg(rawDmg, current) ==
    IF current.isShielded
    THEN IF current.fullShield THEN 0 ELSE rawDmg \div 2
    ELSE rawDmg

\* mutant: isShielded is cleared, fullShield is left as it was
triggerBossTurnKeepsFullShield(rawDmg, current) ==
    [heroHp |-> clamp(current.heroHp - actualDmg(rawDmg, current), 0, 100),
     isShielded |-> FALSE,
     fullShield |-> current.fullShield,
     dmg |-> actualDmg(rawDmg, current)]

\* mutant: the boss attack halves or blocks the damage and leaves the
\* shield up
triggerBossTurnKeepsShield(rawDmg, current) ==
    [heroHp |-> clamp(current.heroHp - actualDmg(rawDmg, current), 0, 100),
     isShielded |-> current.isShielded,
     fullShield |-> current.fullShield,
     dmg |-> actualDmg(rawDmg, current)]

\* triggerBossTurn with its Math.random() roll passed in as rawDmg; dmg is the
\* damage its log line reports
triggerBossTurn(rawDmg, current) ==
    [heroHp |-> clamp(current.heroHp - actualDmg(rawDmg, current), 0, 100),
     isShielded |-> FALSE,
     fullShield |-> FALSE,
     dmg |-> actualDmg(rawDmg, current)]

createInitialState(hand) ==
    [heroHp |-> 100, bossHp |-> 100, gold |-> 50,
     isShielded |-> FALSE, fullShield |-> FALSE,
     hand |-> hand, turnInProgress |-> FALSE,
     gameOver |-> FALSE, winner |-> "null"]

\* mutant: the hp tests are strict, so an hp of exactly 0 does not end the match
checkEndStrict(next, cl) ==
    LET hp == IF "heroHp" \in DOMAIN next THEN next.heroHp ELSE cl.heroHp
        bhp == IF "bossHp" \in DOMAIN next THEN next.bossHp ELSE cl.bossHp
    IN IF bhp < 0
       THEN next @@ [gameOver |-> TRUE, winner |-> "hero"]
       ELSE IF hp < 0
            THEN next @@ [gameOver |-> TRUE, winner |-> "boss"]
            ELSE next

\* mutant: the hero's hp is tested before the boss's
checkEndHeroFirst(next, cl) ==
    LET hp == IF "heroHp" \in DOMAIN next THEN next.heroHp ELSE cl.heroHp
        bhp == IF "bossHp" \in DOMAIN next THEN next.bossHp ELSE cl.bossHp
    IN IF hp <= 0
       THEN next @@ [gameOver |-> TRUE, winner |-> "boss"]
       ELSE IF bhp <= 0
            THEN next @@ [gameOver |-> TRUE, winner |-> "hero"]
            ELSE next

\* checkEnd(next) as closed over the heroHp and bossHp of the render `cl`
checkEnd(next, cl) ==
    LET hp == IF "heroHp" \in DOMAIN next THEN next.heroHp ELSE cl.heroHp
        bhp == IF "bossHp" \in DOMAIN next THEN next.bossHp ELSE cl.bossHp
    IN IF bhp <= 0
       THEN next @@ [gameOver |-> TRUE, winner |-> "hero"]
       ELSE IF hp <= 0
            THEN next @@ [gameOver |-> TRUE, winner |-> "boss"]
            ELSE next

\* mutant: playCard returns early only on a hero win
IsOverHeroOnly(checked) ==
    "gameOver" \in DOMAIN checked /\ checked.gameOver /\ checked.winner = "hero"

\* checked.gameOver, undefined unless checkEnd set it
IsOver(checked) == "gameOver" \in DOMAIN checked /\ checked.gameOver

\* mutant: playCard submits a result at both of its commits, terminal or not
recordResultCallsAlways(checked) == 1

\* the recordResult calls (each issuing one POST to /api/game/record) that
\* playCard makes after committing `checked`: one if it ended the match
recordResultCalls(checked) == IF IsOver(checked) THEN 1 ELSE 0

\* the arguments of recordResult(checked.winner === "hero", checked.heroHp ?? 0,
\* checked.bossHp ?? 0), which become the body of the POST; a field that
\* `checked` does not carry is undefined
recordResultBody(checked) ==
    [won |-> "winner" \in DOMAIN checked /\ checked.winner = "hero",
     heroHp |-> IF "heroHp" \in DOMAIN checked THEN checked.heroHp ELSE 0,
     bossHp |-> IF "bossHp" \in DOMAIN checked THEN checked.bossHp ELSE 0]

\* the bodies of the submissions playCard issues after committing `checked`
recordResultBodies(checked) ==
    IF IsOver(checked) THEN <<recordResultBody(checked)>> ELSE <<>>

\* the dependencies of the memoized reroll callback
RerollDeps(s) == <<s.gold, s.turnInProgress, s.gameOver>>

\* the cardPool the reroll callback holds after a render that took s to t
RerollPoolAfter(s, t, pool, char) ==
    IF RerollDeps(s) # RerollDeps(t) THEN CHARACTER_CARDS[char] ELSE pool

NoTask == [op |-> "init"]
NoCall == [fn |-> "none"]

\* the voice where it is not explored: the log as createInitialState makes
\* it, nothing requested, nothing playing
VoiceIdle ==
    /\ ttsEnabled = TRUE
    /\ logLen = 1
    /\ fetching = 0
    /\ currentAudio = "null"
    /\ strays = 0

\* the page as mounted, untouched while the contract or a pure function is explored
\* GAME_FEE, 0.01 A0GI, in units of 0.005 A0GI
GAME_FEE == 2

\* the wallet while it is not explored: connected, the balance shown covers
\* a game, no wallet operation or submission under way
WalletFunded ==
    /\ balance = GAME_FEE
    /\ depositing = FALSE
    /\ withdrawing = FALSE
    /\ recordings = <<>>

PageIdle ==
    /\ phase = "lobby"
    /\ selectedChar = "kael"
    /\ state = createInitialState(CHOOSE h \in sampleHand(CHARACTER_CARDS["kael"]) : TRUE)
    /\ turns = {}
    /\ rerollPool = CHARACTER_CARDS["kael"]
    /\ aborted = 0
    /\ last = NoTask
    /\ VoiceIdle

----------------------------------------------------------------------------
(* The GameResults contract *)

Address == {"operator", "alice", "bob"}

\* constructor: operator = msg.sender
operator == "operator"

\* 0.01 ether, in units of 0.005 ether
gameFee == 2

ZeroStats == [wins |-> 0, losses |-> 0, gamesPlayed |-> 0]

RECURSIVE SumOver(_, _)
SumOver(f, S) ==
    IF S = {} THEN 0
    ELSE LET a == CHOOSE x \in S : TRUE IN f[a] + SumOver(f, S \ {a})

\* the games on record, over all players
GamesRecorded == SumOver([a \in Address |-> playerStats[a].gamesPlayed], Address)

\* the contract as deployed, before any call
Deployed(v) ==
    /\ variant = v
    /\ playerStats = [a \in Address |-> ZeroStats]
    /\ balances = [a \in Address |-> 0]
    /\ holdings = 0
    /\ frames = <<>>
    /\ tx = [fn |-> "constructor", sender |-> operator, ok |-> TRUE, event |-> "none"]

\* the contract while the page or a pure function is explored
LedgerIdle == Deployed("gated")

\* mutant: a lost game is counted as played but not as a loss
StatsAfterNoLoss(s, won) ==
    [wins |-> IF won THEN s.wins + 1 ELSE s.wins,
     losses |-> s.losses,
     gamesPlayed |-> s.gamesPlayed + 1]

\* the Stats update shared by both variants of recordGame
StatsAfter(s, won) ==
    [wins |-> IF won THEN s.wins + 1 ELSE s.wins,
     losses |-> IF won THEN s.losses ELSE s.losses + 1,
     gamesPlayed |-> s.gamesPlayed + 1]

\* getPlayerStats: (wins, losses, gamesPlayed) of a Stats record
getPlayerStats(s) == <<s.wins, s.losses, s.gamesPlayed>>

\* who can call: any account, or, during a transfer, the account receiving it
Callers == IF frames = <<>> THEN Address ELSE {Head(frames).sender}

\* a call that reverts: no state of the contract changes
Reverts(fn, sender) ==
    /\ tx' = [fn |-> fn, sender |-> sender, ok |-> FALSE, event |-> "none"]
    /\ UNCHANGED <<variant, playerStats, balances, holdings, frames>>

\* mutant: the modifier lets every sender through
onlyOperatorAnyone(sender) == TRUE

\* modifier onlyOperator
onlyOperator(sender) == sender = operator

deposit(sender, value) ==
    /\ variant = "gated"
    /\ sender \in Callers
    /\ IF ~(value > 0)
       THEN Reverts("deposit", sender)
       ELSE /\ holdings + value <= MaxHoldings
            /\ balances' = [balances EXCEPT ![sender] = @ + value]
            /\ holdings' = holdings + value
            /\ tx' = [fn |-> "deposit", sender |-> sender, ok |-> TRUE,
                      event |-> "Deposited"]
            /\ UNCHANGED <<variant, playerStats, frames>>
    /\ UNCHANGED <<battleVars, pureVars>>

\* mutant: withdraw without require(bal > 0)
withdrawNoBalanceCheck(sender) ==
    /\ variant = "gated"
    /\ sender \in Callers
    /\ LET bal == balances[sender]
       IN IF holdings < bal
          THEN Reverts("withdraw", sender)
          ELSE /\ Len(frames) < MaxDepth
               /\ frames' = <<[sender |-> sender, bal |-> bal,
                               saved |-> <<playerStats, balances, holdings>>]>> \o frames
               /\ balances' = [balances EXCEPT ![sender] = 0]
               /\ holdings' = holdings - bal
               /\ UNCHANGED <<variant, playerStats, tx>>
    /\ UNCHANGED <<battleVars, pureVars>>

\* mutant: the balance is not zeroed before the ether is sent
withdrawPaysFirst(sender) ==
    /\ variant = "gated"
    /\ sender \in Callers
    /\ LET bal == balances[sender]
       IN IF ~(bal > 0) \/ holdings < bal
          THEN Reverts("withdraw", sender)
          ELSE /\ Len(frames) < MaxDepth
               /\ frames' = <<[sender |-> sender, bal |-> bal,
                               saved |-> <<playerStats, balances, holdings>>]>> \o frames
               /\ holdings' = holdings - bal
               /\ UNCHANGED <<variant, playerStats, balances, tx>>
    /\ UNCHANGED <<battleVars, pureVars>>

\* withdraw up to the transfer: the balance is zeroed, the ether leaves, and
\* the receiving account runs
withdraw(sender) ==
    /\ variant = "gated"
    /\ sender \in Callers
    /\ LET bal == balances[sender]
       IN IF ~(bal > 0) \/ holdings < bal
          THEN Reverts("withdraw", sender)
          ELSE /\ Len(frames) < MaxDepth
               /\ frames' = <<[sender |-> sender, bal |-> bal,
                               saved |-> <<playerStats, balances, holdings>>]>> \o frames
               /\ balances' = [balances EXCEPT ![sender] = 0]
               /\ holdings' = holdings - bal
               /\ UNCHANGED <<variant, playerStats, tx>>
    /\ UNCHANGED <<battleVars, pureVars>>

\* mutant: a failed transfer gives the ether back but leaves the balance at 0
transferReturnsKeepsZero(ok) ==
    /\ frames # <<>>
    /\ LET f == Head(frames)
       IN IF ok
          THEN /\ tx' = [fn |-> "withdraw", sender |-> f.sender, ok |-> TRUE,
                         event |-> "Withdrawn"]
               /\ UNCHANGED <<playerStats, balances, holdings>>
          ELSE /\ tx' = [fn |-> "withdraw", sender |-> f.sender, ok |-> FALSE,
                         event |-> "none"]
               /\ playerStats' = f.saved[1]
               /\ balances' = [f.saved[2] EXCEPT ![f.sender] = 0]
               /\ holdings' = f.saved[3]
    /\ frames' = Tail(frames)
    /\ UNCHANGED <<variant, battleVars, pureVars>>

\* the transfer of the innermost withdraw returns: require(ok, "Transfer failed")
transferReturns(ok) ==
    /\ frames # <<>>
    /\ LET f == Head(frames)
       IN IF ok
          THEN /\ tx' = [fn |-> "withdraw", sender |-> f.sender, ok |-> TRUE,
                         event |-> "Withdrawn"]
               /\ UNCHANGED <<playerStats, balances, holdings>>
          ELSE /\ tx' = [fn |-> "withdraw", sender |-> f.sender, ok |-> FALSE,
                         event |-> "none"]
               /\ playerStats' = f.saved[1]
               /\ balances' = f.saved[2]
               /\ holdings' = f.saved[3]
    /\ frames' = Tail(frames)
    /\ UNCHANGED <<variant, battleVars, pureVars>>

\* mutant: recordGame without require(balances[player] >= gameFee)
recordGameNoFeeCheck(sender, player, won) ==
    /\ variant = "gated"
    /\ sender \in Callers
    /\ IF ~onlyOperator(sender)
       THEN Reverts("recordGame", sender)
       ELSE /\ GamesRecorded < MaxGames
            /\ balances' = [balances EXCEPT ![player] = @ - gameFee]
            /\ playerStats' = [playerStats EXCEPT ![player] = StatsAfter(@, won)]
            /\ tx' = [fn |-> "recordGame", sender |-> sender, ok |-> TRUE,
                      event |-> "GameRecorded"]
            /\ UNCHANGED <<variant, holdings, frames>>
    /\ UNCHANGED <<battleVars, pureVars>>

\* mutant: the fee of a recorded game is paid out of the contract
recordGamePaysFeeOut(sender, player, won) ==
    /\ variant = "gated"
    /\ sender \in Callers
    /\ IF ~onlyOperator(sender) \/ ~(balances[player] >= gameFee)
       THEN Reverts("recordGame", sender)
       ELSE /\ GamesRecorded < MaxGames
            /\ balances' = [balances EXCEPT ![player] = @ - gameFee]
            /\ holdings' = holdings - gameFee
            /\ playerStats' = [playerStats EXCEPT ![player] = StatsAfter(@, won)]
            /\ tx' = [fn |-> "recordGame", sender |-> sender, ok |-> TRUE,
                      event |-> "GameRecorded"]
            /\ UNCHANGED <<variant, frames>>
    /\ UNCHANGED <<battleVars, pureVars>>

\* recordGame of GameResults.sol
recordGame(sender, player, won) ==
    /\ variant = "gated"
    /\ sender \in Callers
    /\ IF ~onlyOperator(sender) \/ ~(balances[player] >= gameFee)
       THEN Reverts("recordGame", sender)
       ELSE /\ GamesRecorded < MaxGames
            /\ balances' = [balances EXCEPT ![player] = @ - gameFee]
            /\ playerStats' = [playerStats EXCEPT ![player] = StatsAfter(@, won)]
            /\ tx' = [fn |-> "recordGame", sender |-> sender, ok |-> TRUE,
                      event |-> "GameRecorded"]
            /\ UNCHANGED <<variant, holdings, frames>>
    /\ UNCHANGED <<battleVars, pureVars>>

\* mutant: the game is counted as played, but neither as a win nor as a loss
recordGameOpenCountsOnly(sender, player, won) ==
    /\ variant = "open"
    /\ sender \in Callers
    /\ GamesRecorded < MaxGames
    /\ playerStats' = [playerStats EXCEPT ![player].gamesPlayed = @ + 1]
    /\ tx' = [fn |-> "recordGame", sender |-> sender, ok |-> TRUE,
              event |-> "GameRecorded"]
    /\ UNCHANGED <<variant, balances, holdings, frames>>
    /\ UNCHANGED <<battleVars, pureVars>>

\* recordGame of the contract without operator and fee
recordGameOpen(sender, player, won) ==
    /\ variant = "open"
    /\ sender \in Callers
    /\ GamesRecorded < MaxGames
    /\ playerStats' = [playerStats EXCEPT ![player] = StatsAfter(@, won)]
    /\ tx' = [fn |-> "recordGame", sender |-> sender, ok |-> TRUE,
              event |-> "GameRecorded"]
    /\ UNCHANGED <<variant, balances, holdings, frames>>
    /\ UNCHANGED <<battleVars, pureVars>>

InitLedger ==
    /\ PageIdle
    /\ WalletFunded
    /\ call = NoCall
    /\ ret = NoCall
    /\ \E v \in {"gated", "open"} : Deployed(v)

NextLedger ==
    \/ \E a \in Address, v \in 0 .. MaxDeposit : deposit(a, v) /\ UNCHANGED walletVars
    \/ \E a \in Address : withdraw(a) /\ UNCHANGED walletVars
    \/ \E ok \in BOOLEAN : transferReturns(ok) /\ UNCHANGED walletVars
    \/ \E a \in Address, p \in Address, won \in BOOLEAN : recordGame(a, p, won) /\ UNCHANGED walletVars
    \/ \E a \in Address, p \in Address, won \in BOOLEAN : recordGameOpen(a, p, won) /\ UNCHANGED walletVars

SpecLedger == InitLedger /\ [][NextLedger]_vars

----------------------------------------------------------------------------
(* The page *)


Init ==
    /\ phase = "lobby"
    /\ selectedChar = "kael"
    /\ \E h \in sampleHand(CHARACTER_CARDS["kael"]) : state = createInitialState(h)
    /\ turns = {}
    /\ rerollPool = CHARACTER_CARDS["kael"]
    /\ aborted = 0
    /\ last = NoTask
    /\ VoiceIdle
    /\ WalletFunded
    /\ call = NoCall
    /\ ret = NoCall
    /\ LedgerIdle

\* handleLobbyStart
LobbyStart(char) ==
    /\ phase = "lobby"
    /\ \E h \in sampleHand(CHARACTER_CARDS[char]) :
          /\ state' = createInitialState(h)
          /\ rerollPool' = RerollPoolAfter(state, state', rerollPool, char)
    /\ selectedChar' = char
    /\ phase' = "battle"
    /\ last' = [op |-> "lobbyStart"]
    /\ UNCHANGED <<turns, aborted, others>>

\* mutant: playCard does not test gameOver
PlayCardAcceptedIgnoresGameOver == ~state.turnInProgress

\* mutant: playCard does not test turnInProgress
PlayCardAcceptedIgnoresTurn == ~state.gameOver

\* the guard on the first line of playCard
PlayCardAccepted == ~(state.turnInProgress \/ state.gameOver)

\* playCard up to its first await (or its return on a terminal card)
PlayCard(card) ==
    /\ phase = "battle"
    /\ PlayCardAccepted
    /\ LET result == resolveCardEffect(card, state)
           afterCard == Pick(result, BattleFields)
           checked == checkEnd(afterCard, state)
           over == IsOver(checked)
           committed == Merge([state EXCEPT !.turnInProgress = ~over], checked)
       IN /\ result.gold <= MaxGold
          /\ state' = committed
          /\ turns' = IF over THEN turns
                      ELSE turns \cup {[pc |-> "delay",
                                        result |-> afterCard,
                                        cl |-> Pick(state, {"heroHp", "bossHp"}),
                                        pool |-> CHARACTER_CARDS[selectedChar]]}
          /\ rerollPool' = RerollPoolAfter(state, committed, rerollPool, selectedChar)
          /\ last' = [op |-> "playCard", accepted |-> TRUE,
                       posts |-> recordResultCalls(checked),
                       bodies |-> recordResultBodies(checked)]
    /\ UNCHANGED <<phase, selectedChar, aborted, others>>

\* playCard returning at its guard
PlayCardRejected(card) ==
    /\ phase = "battle"
    /\ ~PlayCardAccepted
    /\ last' = [op |-> "playCard", accepted |-> FALSE]
    /\ UNCHANGED <<phase, selectedChar, state, turns, rerollPool, aborted, others>>

\* mutant: the boss attack is computed when the delay elapses, without the
\* opponent-action fetch
DelayElapsedComputesAttack(t) ==
    /\ t \in turns /\ t.pc = "delay"
    /\ \E rawDmg \in BossRawDmg :
          turns' = (turns \ {t}) \cup
                      {[pc |-> "hurt", result |-> t.result, cl |-> t.cl, pool |-> t.pool,
                        bossResult |-> triggerBossTurn(rawDmg, t.result)]}
    /\ last' = [op |-> "delayElapsed"]
    /\ UNCHANGED <<phase, selectedChar, state, rerollPool, aborted, others>>

\* BOSS_TURN_DELAY elapsed: playCard issues the opponent-action fetch
DelayElapsed(t) ==
    /\ t \in turns /\ t.pc = "delay"
    /\ turns' = (turns \ {t}) \cup {[t EXCEPT !.pc = "fetch"]}
    /\ last' = [op |-> "delayElapsed"]
    /\ UNCHANGED <<phase, selectedChar, state, rerollPool, aborted, others>>

\* mutant: the boss damage is committed when the fetch resolves, before the
\* hurt pause and apart from the hand redraw
FetchOkCommitsHp(t) ==
    /\ t \in turns /\ t.pc = "fetch"
    /\ \E rawDmg \in BossRawDmg :
          LET bossResult == triggerBossTurn(rawDmg, t.result)
          IN /\ turns' = (turns \ {t}) \cup
                            {[pc |-> "hurt", result |-> t.result, cl |-> t.cl,
                              pool |-> t.pool, bossResult |-> bossResult]}
             /\ state' = [state EXCEPT !.heroHp = bossResult.heroHp]
             /\ last' = [op |-> "fetchOk"]
    /\ UNCHANGED <<phase, selectedChar, rerollPool, aborted, others>>

\* fetchAiBossAction resolved: the boss attack is computed, then the hurt pause
FetchOk(t) ==
    /\ t \in turns /\ t.pc = "fetch"
    /\ \E rawDmg \in BossRawDmg :
          LET bossResult == triggerBossTurn(rawDmg, t.result)
          IN /\ turns' = (turns \ {t}) \cup
                            {[pc |-> "hurt", result |-> t.result, cl |-> t.cl,
                              pool |-> t.pool, bossResult |-> bossResult]}
             /\ last' = [op |-> "fetchOk"]
    /\ UNCHANGED <<phase, selectedChar, state, rerollPool, aborted, others>>

\* fetchAiBossAction threw: playCard rejects, nothing after line 510 runs
FetchFail(t) ==
    /\ t \in turns /\ t.pc = "fetch"
    /\ turns' = turns \ {t}
    /\ aborted' = aborted + 1
    /\ last' = [op |-> "fetchFail"]
    /\ UNCHANGED <<phase, selectedChar, state, rerollPool, others>>

\* the 400 ms hurt pause elapsed: the boss half is committed
HurtElapsed(t) ==
    /\ t \in turns /\ t.pc = "hurt"
    /\ \E h \in sampleHand(t.pool) :
          LET afterBoss == [heroHp |-> t.bossResult.heroHp,
                            isShielded |-> t.bossResult.isShielded,
                            fullShield |-> t.bossResult.fullShield,
                            hand |-> h,
                            turnInProgress |-> FALSE]
              finalState == checkEnd(afterBoss, t.cl)
              committed == Merge(state, finalState)
          IN /\ state' = committed
             /\ rerollPool' = RerollPoolAfter(state, committed, rerollPool, selectedChar)
             /\ last' = [op |-> "hurtElapsed", shielded |-> t.result.isShielded,
                          posts |-> recordResultCalls(finalState),
                          bodies |-> recordResultBodies(finalState)]
    /\ turns' = turns \ {t}
    /\ UNCHANGED <<phase, selectedChar, aborted, others>>

\* mutant: reroll does not test the gold
RerollAcceptedIgnoresGold == ~(state.turnInProgress \/ state.gameOver)

\* the guard on the first line of reroll
RerollAccepted ==
    ~(state.gold < REROLL_COST \/ state.turnInProgress \/ state.gameOver)

Reroll ==
    /\ phase = "battle"
    /\ RerollAccepted
    /\ \E h \in sampleHand(rerollPool) :
          /\ state' = [state EXCEPT !.gold = state.gold - REROLL_COST, !.hand = h]
          /\ rerollPool' = RerollPoolAfter(state, state', rerollPool, selectedChar)
    /\ last' = [op |-> "reroll", accepted |-> TRUE]
    /\ UNCHANGED <<phase, selectedChar, turns, aborted, others>>

\* reroll returning at its guard
RerollRejected ==
    /\ phase = "battle"
    /\ ~RerollAccepted
    /\ last' = [op |-> "reroll", accepted |-> FALSE]
    /\ UNCHANGED <<phase, selectedChar, state, turns, rerollPool, aborted, others>>

\* restart: the Play Again button, rendered only while state.gameOver
Restart ==
    /\ phase = "battle"
    /\ state.gameOver
    /\ \E h \in sampleHand(CHARACTER_CARDS[selectedChar]) :
          /\ state' = createInitialState(h)
          /\ rerollPool' = RerollPoolAfter(state, state', rerollPool, selectedChar)
    /\ last' = [op |-> "restart"]
    /\ UNCHANGED <<phase, selectedChar, turns, aborted, others>>

\* the cards a click can play: the Card buttons render state.hand
Playable == {state.hand[i] : i \in 1 .. HAND_SIZE}

\* the page as the player can drive it: a disabled button delivers no click.
\* The voice is left out: the log and the speech it triggers are not tracked.
Next ==
    \/ \E char \in CharacterId : LobbyStart(char) /\ UNCHANGED <<voiceVars, walletVars>>
    \/ \E card \in Playable : PlayCard(card) /\ UNCHANGED <<voiceVars, walletVars>>
    \/ \E t \in turns : DelayElapsed(t) /\ UNCHANGED <<voiceVars, walletVars>>
    \/ \E t \in turns : FetchOk(t) /\ UNCHANGED <<voiceVars, walletVars>>
    \/ \E t \in turns : FetchFail(t) /\ UNCHANGED <<voiceVars, walletVars>>
    \/ \E t \in turns : HurtElapsed(t) /\ UNCHANGED <<voiceVars, walletVars>>
    \/ Reroll /\ UNCHANGED <<voiceVars, walletVars>>
    \/ Restart /\ UNCHANGED <<voiceVars, walletVars>>

Spec == Init /\ [][Next]_vars

\* the page with playCard and reroll also invoked while their guards reject
NextClicks ==
    \/ Next
    \/ \E card \in Playable : PlayCardRejected(card) /\ UNCHANGED <<voiceVars, walletVars>>
    \/ RerollRejected /\ UNCHANGED <<voiceVars, walletVars>>

SpecClicks == Init /\ [][NextClicks]_vars

\* the page with its timers firing, its fetch settling one way or the other
\* and a player who goes on clicking whatever button is enabled
SpecFair == Init /\ [][Next]_vars /\ WF_vars(Next)

----------------------------------------------------------------------------
(* The voice: speak, the effect that calls it on a new log line, the switch *)

\* speak up to its await: an audio still referred to by currentAudio is
\* paused and forgotten, then the /api/tts request is issued
speak ==
    /\ fetching < MaxFetching
    /\ fetching' = fetching + 1
    /\ currentAudio' = "null"
    /\ UNCHANGED strays

\* a task appended a line to state.log: the effect on state.log.length runs
\* and, with the voice on, calls speak on the new line.  `room` is the number
\* of lines the turn of the task still needs below MaxLogLen.
LogAppended(room) ==
    /\ logLen + room <= MaxLogLen
    /\ logLen' = logLen + 1
    /\ IF ttsEnabled THEN speak ELSE UNCHANGED <<fetching, currentAudio, strays>>
    /\ UNCHANGED ttsEnabled

\* createInitialState replaced the log by its first line: the effect only
\* records the shorter length
LogReset ==
    /\ logLen' = 1
    /\ UNCHANGED <<ttsEnabled, fetching, currentAudio, strays>>

\* the Voice ON / Voice OFF button
ToggleVoice ==
    /\ phase = "battle"
    /\ ttsEnabled' = ~ttsEnabled
    /\ currentAudio' = "null"
    /\ UNCHANGED <<logLen, fetching, strays, pageVars, others>>

\* mutant: a failed voice request rejects the turn in flight
SpeechFailedAbortsTurn ==
    /\ fetching > 0
    /\ fetching' = fetching - 1
    /\ turns' = {}
    /\ UNCHANGED <<ttsEnabled, logLen, currentAudio, strays, others>>
    /\ UNCHANGED <<phase, selectedChar, state, rerollPool, aborted, last>>

\* a speak call ends without an audio: fetch threw, the response was not ok,
\* or reading the blob threw; the catch swallows it.  (A request that never
\* completes is one for which neither this step nor SpeechFetched is taken.)
SpeechFailed ==
    /\ fetching > 0
    /\ fetching' = fetching - 1
    /\ UNCHANGED <<ttsEnabled, logLen, currentAudio, strays, pageVars, others>>

\* a speak call got its audio: currentAudio = audio, then audio.play(),
\* which starts the playback or throws.  The audio currentAudio referred to
\* until now is not paused: if it is playing it goes on playing.
SpeechFetched(plays) ==
    /\ fetching > 0
    /\ fetching' = fetching - 1
    /\ IF currentAudio = "playing"
       THEN strays < MaxStrays /\ strays' = strays + 1
       ELSE UNCHANGED strays
    /\ currentAudio' = IF plays THEN "playing" ELSE "silent"
    /\ UNCHANGED <<ttsEnabled, logLen, pageVars, others>>

\* audio.onended of the audio currentAudio refers to
CurrentAudioEnded ==
    /\ currentAudio = "playing"
    /\ currentAudio' = "null"
    /\ UNCHANGED <<ttsEnabled, logLen, fetching, strays, pageVars, others>>

\* audio.onended of an audio currentAudio no longer refers to
StrayAudioEnded ==
    /\ strays > 0
    /\ strays' = strays - 1
    /\ UNCHANGED <<ttsEnabled, logLen, fetching, currentAudio, pageVars, others>>

\* the page as mounted: the effect has run on the first log line and called speak
InitVoice ==
    /\ phase = "lobby"
    /\ selectedChar = "kael"
    /\ \E h \in sampleHand(CHARACTER_CARDS["kael"]) : state = createInitialState(h)
    /\ turns = {}
    /\ rerollPool = CHARACTER_CARDS["kael"]
    /\ aborted = 0
    /\ last = NoTask
    /\ ttsEnabled = TRUE
    /\ logLen = 1
    /\ fetching = 1
    /\ currentAudio = "null"
    /\ strays = 0
    /\ WalletFunded
    /\ call = NoCall
    /\ ret = NoCall
    /\ LedgerIdle

\* the page with its voice
NextVoice ==
    \/ \E char \in CharacterId : LobbyStart(char) /\ LogReset /\ UNCHANGED walletVars
    \/ \E card \in Playable : PlayCard(card) /\ LogAppended(2) /\ UNCHANGED walletVars
    \/ \E t \in turns : DelayElapsed(t) /\ UNCHANGED voiceVars /\ UNCHANGED walletVars
    \/ \E t \in turns : FetchOk(t) /\ UNCHANGED voiceVars /\ UNCHANGED walletVars
    \/ \E t \in turns : FetchFail(t) /\ UNCHANGED voiceVars /\ UNCHANGED walletVars
    \/ \E t \in turns : HurtElapsed(t) /\ LogAppended(1) /\ UNCHANGED walletVars
    \/ Reroll /\ LogAppended(1) /\ UNCHANGED walletVars
    \/ Restart /\ LogReset /\ UNCHANGED walletVars
    \/ ToggleVoice /\ UNCHANGED walletVars
    \/ \E plays \in BOOLEAN : SpeechFetched(plays) /\ UNCHANGED walletVars
    \/ SpeechFailed /\ UNCHANGED walletVars
    \/ CurrentAudioEnded /\ UNCHANGED walletVars
    \/ StrayAudioEnded /\ UNCHANGED walletVars

SpecVoice == InitVoice /\ [][NextVoice]_vars

----------------------------------------------------------------------------
(* The exported pure functions called directly, as a unit test calls them *)

\* hp and gold values passed to resolveCardEffect
CallHp == {h \in 0 .. 100 : h % 5 = 0}
CallGold == 0 .. MaxCallGold

ResolveCalls ==
    {[fn |-> "resolveCardEffect", card |-> c,
      current |-> [heroHp |-> h, bossHp |-> b, gold |-> g,
                   isShielded |-> sh, fullShield |-> fu]] :
        c \in CardType, h \in CallHp, b \in CallHp, g \in CallGold,
        sh \in BOOLEAN, fu \in BOOLEAN}

BossCalls ==
    {[fn |-> "triggerBossTurn", rawDmg |-> r,
      current |-> [heroHp |-> h, isShielded |-> sh, fullShield |-> fu]] :
        r \in BOSS_MIN_DMG .. BOSS_MAX_DMG, h \in 0 .. 100,
        sh \in BOOLEAN, fu \in BOOLEAN}

InitPure ==
    /\ PageIdle
    /\ WalletFunded
    /\ call \in ResolveCalls \cup BossCalls
    /\ ret = NoCall
    /\ LedgerIdle

CallResolveCardEffect ==
    /\ call.fn = "resolveCardEffect"
    /\ ret = NoCall
    /\ ret' = resolveCardEffect(call.card, call.current)
    /\ UNCHANGED <<battleVars, call, ledgerVars>>

CallTriggerBossTurn ==
    /\ call.fn = "triggerBossTurn"
    /\ ret = NoCall
    /\ ret' = triggerBossTurn(call.rawDmg, call.current)
    /\ UNCHANGED <<battleVars, call, ledgerVars>>

NextPure ==
    \/ CallResolveCardEffect /\ UNCHANGED walletVars
    \/ CallTriggerBossTurn /\ UNCHANGED walletVars

SpecPure == InitPure /\ [][NextPure]_vars

----------------------------------------------------------------------------
(* A match played with a connected wallet, the wallet panel and the ledger *)

\* the connected account (useAccount().address)
address == "alice"

\* hasEnoughBalance, with a wallet that is connected and a balance that has
\* been fetched: parseFloat(balance) >= GAME_FEE
hasEnoughBalance == balance >= GAME_FEE

\* the Card buttons are disabled (isConnected holds throughout)
cardsDisabled == state.turnInProgress \/ state.gameOver \/ ~hasEnoughBalance

\* recordResult up to its fetch: the POSTs of the task that just ran are on
\* their way to the server
recordResult(bodies) ==
    /\ recordings' = recordings \o [i \in DOMAIN bodies |-> bodies[i].won]
    /\ Len(recordings') <= MaxRecordings
    /\ UNCHANGED <<balance, depositing, withdrawing>>

\* fetchPlayerData answered: getPlayerBalance read between two transactions
fetchPlayerData ==
    /\ frames = <<>>
    /\ balance' = balances[address]

\* handleDeposit up to the signed transaction, which the chain executes
handleDeposit(value) ==
    /\ ~depositing
    /\ depositing' = TRUE
    /\ deposit(address, value)
    /\ UNCHANGED <<balance, withdrawing, recordings>>

\* handleDeposit after its 3 s wait: the balance is fetched again
DepositRefreshed ==
    /\ depositing
    /\ fetchPlayerData
    /\ depositing' = FALSE
    /\ UNCHANGED <<withdrawing, recordings, battleVars, others>>

\* handleWithdraw up to the signed transaction, which the chain executes up
\* to its transfer
handleWithdraw ==
    /\ ~(withdrawing \/ balance <= 0)
    /\ withdrawing' = TRUE
    /\ withdraw(address)
    /\ UNCHANGED <<balance, depositing, recordings>>

\* handleWithdraw after its 3 s wait: the balance is fetched again
WithdrawRefreshed ==
    /\ withdrawing
    /\ fetchPlayerData
    /\ withdrawing' = FALSE
    /\ UNCHANGED <<depositing, recordings, battleVars, others>>

\* POST /api/game/record handled: the operator's wallet sends recordGame for
\* the player; when it is mined the route answers with the new balance, which
\* recordResult displays, and when it reverts the route answers 500
RecordSubmitted ==
    /\ recordings # <<>>
    /\ frames = <<>>
    /\ recordGame(operator, address, Head(recordings))
    /\ recordings' = Tail(recordings)
    /\ balance' = IF tx'.ok THEN balances'[address] ELSE balance
    /\ UNCHANGED <<depositing, withdrawing>>

\* the wallet connected to the freshly deployed gated contract, its balance
\* of 0 fetched, in the lobby
InitMatch ==
    /\ PageIdle
    /\ balance = 0
    /\ depositing = FALSE
    /\ withdrawing = FALSE
    /\ recordings = <<>>
    /\ call = NoCall
    /\ ret = NoCall
    /\ Deployed("gated")

\* one match whose opponent-action fetches succeed, played through the Card
\* buttons, with the wallet panel in use and the server recording the result
NextMatch ==
    \/ \E char \in CharacterId : LobbyStart(char) /\ UNCHANGED <<voiceVars, walletVars>>
    \/ \E card \in Playable :
          ~cardsDisabled /\ PlayCard(card) /\ recordResult(last'.bodies) /\ UNCHANGED voiceVars
    \/ \E t \in turns : DelayElapsed(t) /\ UNCHANGED <<voiceVars, walletVars>>
    \/ \E t \in turns : FetchOk(t) /\ UNCHANGED <<voiceVars, walletVars>>
    \/ \E t \in turns : HurtElapsed(t) /\ recordResult(last'.bodies) /\ UNCHANGED voiceVars
    \/ handleDeposit(GAME_FEE)
    \/ DepositRefreshed
    \/ handleWithdraw
    \/ \E ok \in BOOLEAN : transferReturns(ok) /\ UNCHANGED walletVars
    \/ WithdrawRefreshed
    \/ RecordSubmitted

SpecMatch == InitMatch /\ [][NextMatch]_vars

----------------------------------------------------------------------------
(* Properties *)

\* C1: in every reachable battle state heroHp and bossHp are integers in
\* [0,100], whatever cards, boss attacks, rerolls and restarts came before.
HpInRange ==
    /\ state.heroHp \in 0 .. 100
    /\ state.bossHp \in 0 .. 100

\* a card overkilled the boss (berserk_rage for 30 on 10 hp left) and the
\* clamp kept bossHp at 0
HpClampedWitness ==
    /\ last.op = "playCard"
    /\ state.bossHp = 0
    /\ state.heroHp > 0

\* C3: the outcome is terminal exactly when heroHp = 0 or bossHp = 0, and the
\* winner is set exactly in terminal states.
TerminalIffHpZero ==
    /\ state.gameOver <=> (state.heroHp = 0 \/ state.bossHp = 0)
    /\ state.gameOver <=> state.winner \in {"hero", "boss"}

\* the boss attack brought heroHp to 0 and the match ended with a boss win
BossWinWitness ==
    /\ last.op = "hurtElapsed"
    /\ state.gameOver
    /\ state.winner = "boss"
    /\ state.heroHp = 0

\* C4: once gameOver is set, the battle state changes only by restart:
\* playCard and reroll invoked in a terminal state change nothing, and no
\* turn is left in flight that could commit afterwards.
TerminalFrozen ==
    /\ [](state.gameOver => turns = {})
    /\ [][state.gameOver => (state' = state \/ last'.op = "restart")]_vars

\* playCard was invoked in a terminal state
TerminalClickWitness ==
    /\ state.gameOver
    /\ last.op = "playCard"
    /\ ~last.accepted

\* C5: at most one turn is in flight, the state is marked turnInProgress
\* for as long as it is, and the battle values are still the post-card values
\* that turn captured: no other turn has modified them.
OneTurnInFlight ==
    /\ Cardinality(turns) <= 1
    /\ \A t \in turns :
          /\ state.turnInProgress
          /\ Pick(state, BattleFields) = t.result

\* playCard was invoked, and rejected, while a turn waits in its hurt pause
RejectedMidTurnWitness ==
    /\ last.op = "playCard"
    /\ ~last.accepted
    /\ \E t \in turns : t.pc = "hurt"

\* the spec's scenario: heroHp = 100, bossHp = 10, a card dealing 15 damage
KnightsStrikeScenario ==
    LET current == [heroHp |-> 100, bossHp |-> 10, gold |-> 50,
                    isShielded |-> FALSE, fullShield |-> FALSE]
        checked == checkEnd(Pick(resolveCardEffect("knights_strike", current),
                                 BattleFields), current)
    IN /\ checked.bossHp = 0
       /\ checked.heroHp = 100
       /\ IsOver(checked)
       /\ checked.winner = "hero"

\* C6: when the played card drives heroHp or bossHp to 0, the match is
\* terminal in that same step, with a winner, and the turn ends there: no
\* fetch and no boss attack is left to run.
CardKillEndsTurn ==
    /\ KnightsStrikeScenario
    /\ (last.op = "playCard" /\ last.accepted /\ (state.heroHp = 0 \/ state.bossHp = 0))
          => /\ state.gameOver
             /\ state.winner \in {"hero", "boss"}
             /\ ~state.turnInProgress
             /\ turns = {}

\* berserk_rage took the hero's last hp while the boss survived
CardKillWitness ==
    /\ last.op = "playCard"
    /\ last.accepted
    /\ state.heroHp = 0
    /\ state.bossHp > 0
    /\ state.winner = "boss"

\* C2: in both variants of the contract gamesPlayed = wins + losses for every
\* address, in every state that recordGame, deposit and withdraw calls,
\* successful, reverted or re-entrant, can reach.
GamesPlayedIsSum ==
    \A a \in Address :
        playerStats[a].gamesPlayed = playerStats[a].wins + playerStats[a].losses

\* a win and a loss are on record for one player, and a call has reverted since
StatsWitness ==
    /\ \E a \in Address : playerStats[a].wins = 1 /\ playerStats[a].losses = 1
    /\ ~tx.ok

\* C7: phantom_strike with gold < 5 returns every battle value unchanged,
\* bossDamaged = FALSE and the fizzle log line; with gold >= 5 it takes
\* exactly 5 gold and 25 boss hp, stopping at 0.
PhantomStrikeEffect ==
    (call.fn = "resolveCardEffect" /\ call.card = "phantom_strike" /\ ret # NoCall) =>
        LET cur == call.current
        IN /\ ret.heroHp = cur.heroHp
           /\ ret.isShielded = cur.isShielded
           /\ ret.fullShield = cur.fullShield
           /\ IF cur.gold < 5
              THEN /\ ret.gold = cur.gold
                   /\ ret.bossHp = cur.bossHp
                   /\ ~ret.bossDamaged
                   /\ ret.log = FizzleLog
              ELSE /\ ret.gold + 5 = cur.gold
                   /\ ret.bossHp = (IF cur.bossHp > 25 THEN cur.bossHp - 25 ELSE 0)
                   /\ ret.bossDamaged
                   /\ ret.log # FizzleLog

\* the spec's scenario in both regimes: a fizzle at gold 3, a clamped hit at gold 5
PhantomStrikeWitness ==
    /\ call.fn = "resolveCardEffect"
    /\ call.card = "phantom_strike"
    /\ ret # NoCall
    /\ \/ call.current.gold = 3 /\ ret.log = FizzleLog
       \/ call.current.gold = 5 /\ call.current.bossHp = 10 /\ ret.bossHp = 0

\* C8: for every raw damage r in 10..20 and heroHp in [0,100] the boss attack
\* applies 0 under a full shield, floor(r/2) under a half shield, r otherwise,
\* and returns heroHp = max(0, heroHp - damage).
BossDamageRule ==
    (call.fn = "triggerBossTurn" /\ ret # NoCall) =>
        LET cur == call.current
            r == call.rawDmg
        IN /\ r \in 10 .. 20
           /\ IF cur.isShielded /\ cur.fullShield THEN ret.dmg = 0
              ELSE IF cur.isShielded THEN 2 * ret.dmg <= r /\ r < 2 * ret.dmg + 2
              ELSE ret.dmg = r
           /\ IF cur.heroHp > ret.dmg THEN ret.heroHp + ret.dmg = cur.heroHp
              ELSE ret.heroHp = 0

\* an odd roll halved by a half shield: 15 becomes 7
HalfShieldWitness ==
    /\ call.fn = "triggerBossTurn"
    /\ ret # NoCall
    /\ call.rawDmg = 15
    /\ call.current.isShielded /\ ~call.current.fullShield
    /\ call.current.heroHp = 50
    /\ ret.heroHp = 43

\* triggerBossTurn returns both shield flags cleared for every input
BossTurnClearsFlags ==
    \A c \in BossCalls :
        LET r == triggerBossTurn(c.rawDmg, c.current)
        IN ~r.isShielded /\ ~r.fullShield

\* C9: every boss turn clears the shield: triggerBossTurn returns both flags
\* false for every input, and once the boss phase of a turn has committed
\* both flags of the battle state are false.
BossTurnClearsShield ==
    /\ BossTurnClearsFlags
    /\ last.op = "hurtElapsed" => ~state.isShielded /\ ~state.fullShield

\* the boss phase of a turn that raised a shield has committed
ShieldedTurnWitness ==
    /\ last.op = "hurtElapsed"
    /\ last.shielded
    /\ ~state.isShielded

\* C10: the boss half of a turn commits all at once or not at all: the delay,
\* the fetch and a failed fetch leave the battle state as the card left it,
\* a failed fetch leaves it so for good, and the commit after the hurt pause
\* sets heroHp, clears both shield flags and redraws the hand in one update.
BossHalfAtomic ==
    /\ [][last'.op \in {"delayElapsed", "fetchOk", "fetchFail"} => state' = state]_vars
    /\ [][last'.op = "fetchFail" =>
            \E t \in turns : /\ t \notin turns'
                             /\ Pick(state', BattleFields) = t.result]_vars
    /\ [][aborted > 0 => state' = state]_vars
    /\ [][last'.op = "hurtElapsed" =>
            \E t \in turns :
               /\ t.pc = "hurt"
               /\ state'.heroHp = t.bossResult.heroHp
               /\ ~state'.isShielded /\ ~state'.fullShield
               /\ state'.hand \in sampleHand(t.pool)
               /\ ~state'.turnInProgress]_vars

\* the fetch of a turn that raised a shield failed: the shield stays up
FetchFailedWitness ==
    /\ last.op = "fetchFail"
    /\ aborted > 0
    /\ state.isShielded
    /\ state.turnInProgress

\* C11: when the opponent-action fetch of a turn fails, the page recovers:
\* eventually turnInProgress is false again and a card play is accepted.
FetchFailureRecovers ==
    (aborted > 0) ~> (~state.turnInProgress /\ PlayCardAccepted)

\* C12: reroll is accepted exactly when gold >= 5, no turn is in progress and
\* the match is not terminal; accepted, it takes exactly 5 gold, redraws a hand
\* of 3 cards and leaves every other field and the turns in flight alone;
\* rejected, it changes nothing.
RerollRule ==
    [][last'.op = "reroll" =>
         IF state.gold >= 5 /\ ~state.turnInProgress /\ ~state.gameOver
         THEN /\ last'.accepted
              /\ state'.gold = state.gold - 5
              /\ Len(state'.hand) = 3
              /\ \A i \in 1 .. 3 : state'.hand[i] \in CardType
              /\ state' = [state EXCEPT !.gold = state'.gold, !.hand = state'.hand]
              /\ turns' = turns
         ELSE /\ ~last'.accepted
              /\ state' = state
              /\ turns' = turns]_vars

\* ten rerolls spent the 50 gold, and one more was rejected for its cost alone
RerollBrokeWitness ==
    /\ last.op = "reroll"
    /\ ~last.accepted
    /\ state.gold < 5
    /\ ~state.turnInProgress
    /\ ~state.gameOver

\* C13: in the gated contract a recordGame call from any address but the
\* operator reverts and leaves every player's stats and balance as they were,
\* and the stats change only by a successful recordGame of the operator (or
\* are put back when a failed withdraw reverts the calls nested in it).  A
\* step that ends a recordGame call is one that sets tx to it and leaves the
\* withdraw frames alone.
OperatorOnlyWrites ==
    /\ [][(variant = "gated" /\ frames' = frames /\ tx'.fn = "recordGame"
              /\ tx'.sender # operator)
            => /\ ~tx'.ok
               /\ tx'.event = "none"
               /\ playerStats' = playerStats
               /\ balances' = balances
               /\ holdings' = holdings]_vars
    /\ [][(variant = "gated" /\ playerStats' # playerStats)
            => \/ /\ frames' = frames
                  /\ tx'.fn = "recordGame" /\ tx'.sender = operator /\ tx'.ok
               \/ /\ frames # <<>> /\ frames' = Tail(frames)
                  /\ tx'.fn = "withdraw" /\ ~tx'.ok
                  /\ playerStats' = Head(frames).saved[1]]_vars

\* alice holds a balance that covers the fee, called recordGame herself, and
\* was turned away
StrangerRecordWitness ==
    /\ variant = "gated"
    /\ tx.fn = "recordGame"
    /\ tx.sender = "alice"
    /\ ~tx.ok
    /\ balances["alice"] >= gameFee
    /\ frames = <<>>

\* C14: in the gated contract recordGame for a player whose balance is below
\* gameFee aborts whole: a recordGame call either succeeds, charging gameFee
\* to one player who held at least that much and updating that player's stats
\* alone, or changes no balance and no stats and emits no event; the stats of
\* a player holding less than gameFee are never updated; no balance is ever
\* below 0.
FeeOrAbort ==
    /\ [](\A a \in Address : balances[a] >= 0)
    /\ [][(variant = "gated" /\ frames' = frames /\ tx'.fn = "recordGame")
            => IF tx'.ok
               THEN /\ tx'.event = "GameRecorded"
                    /\ \E p \in Address :
                          /\ balances[p] >= gameFee
                          /\ balances' = [balances EXCEPT ![p] = @ - gameFee]
                          /\ playerStats'[p] # playerStats[p]
                          /\ \A q \in Address \ {p} : playerStats'[q] = playerStats[q]
               ELSE /\ tx'.event = "none"
                    /\ balances' = balances
                    /\ playerStats' = playerStats]_vars
    /\ [][(variant = "gated" /\ frames' = frames)
            => \A p \in Address :
                  balances[p] < gameFee => playerStats'[p] = playerStats[p]]_vars

\* the operator's recordGame reverted while no player held the fee, one of
\* them holding half of it
ShortBalanceWitness ==
    /\ variant = "gated"
    /\ tx.fn = "recordGame"
    /\ tx.sender = operator
    /\ ~tx.ok
    /\ frames = <<>>
    /\ \A p \in Address : balances[p] < gameFee
    /\ \E p \in Address : balances[p] > 0

\* the spec's scenario: a win then a loss recorded for a fresh player read
\* back as wins = 1, losses = 1, gamesPlayed = 2
RecordTwiceScenario ==
    getPlayerStats(StatsAfter(StatsAfter(ZeroStats, TRUE), FALSE)) = <<1, 1, 2>>

\* C15: every successful recordGame adds exactly 1 to the player's
\* gamesPlayed and exactly 1 to wins (won) or to losses (not won), touches no
\* other player's stats, and in the gated contract takes exactly gameFee from
\* the player's balance; so the stats read back count the records (a win and
\* a loss give 1, 1, 2) and, in the gated contract at rest, the ether held is
\* the players' balances plus one fee per game on record.
RecordGameEffect ==
    /\ RecordTwiceScenario
    /\ [][(frames' = frames /\ tx'.fn = "recordGame" /\ tx'.ok)
            => \E p \in Address, won \in BOOLEAN :
                  /\ playerStats' =
                        [playerStats EXCEPT
                            ![p] = [wins |-> @.wins + (IF won THEN 1 ELSE 0),
                                    losses |-> @.losses + (IF won THEN 0 ELSE 1),
                                    gamesPlayed |-> @.gamesPlayed + 1]]
                  /\ balances' = IF variant = "gated"
                                 THEN [balances EXCEPT ![p] = @ - gameFee]
                                 ELSE balances]_vars
    /\ []((variant = "gated" /\ frames = <<>>)
            => holdings = SumOver(balances, Address) + gameFee * GamesRecorded)

\* the gated contract has recorded a win and a loss for alice, last of all
RecordedTwiceWitness ==
    /\ variant = "gated"
    /\ tx.fn = "recordGame" /\ tx.ok
    /\ getPlayerStats(playerStats["alice"]) = <<1, 1, 2>>
    /\ holdings >= 2 * gameFee

\* C16: withdraw is safe under reentrancy.  A withdraw that reaches its
\* transfer sends exactly the caller's balance at the start of the call and
\* has zeroed that balance before the recipient runs; while the recipient's
\* balance is 0 no further payout to it begins (a re-entered withdraw
\* reverts); and the ether the contract holds always covers every player's
\* balance, so no payout is ever made out of another player's funds.
ReentrancySafe ==
    /\ [](holdings >= SumOver(balances, Address))
    /\ [][Len(frames') > Len(frames)
            => LET f == Head(frames')
               IN /\ f.bal = balances[f.sender]
                  /\ f.bal > 0
                  /\ balances' = [balances EXCEPT ![f.sender] = 0]
                  /\ holdings' = holdings - f.bal]_vars
    /\ [][(frames # <<>> /\ balances[Head(frames).sender] = 0)
            => Len(frames') <= Len(frames)]_vars

\* alice re-entered withdraw from inside her own transfer and was reverted,
\* while the contract still holds another player's deposit
ReenteredWitness ==
    /\ frames # <<>>
    /\ Head(frames).sender = "alice"
    /\ tx = [fn |-> "withdraw", sender |-> "alice", ok |-> FALSE, event |-> "none"]
    /\ balances["alice"] = 0
    /\ balances["bob"] > 0

\* C17: when the ether transfer of a withdraw fails the whole call reverts:
\* the caller's balance is back at the positive value it had when the call
\* began, balances, stats and holdings are all as they were then (with no
\* call made during the transfer, the ether sent is simply back), the
\* holdings cover every balance, and no Withdrawn event is emitted.
WithdrawFailureReverts ==
    [][(frames # <<>> /\ frames' = Tail(frames) /\ ~tx'.ok)
        => LET f == Head(frames)
           IN /\ tx'.fn = "withdraw" /\ tx'.sender = f.sender
              /\ tx'.event = "none"
              /\ balances'[f.sender] = f.bal /\ f.bal > 0
              /\ balances' = f.saved[2]
              /\ holdings' = f.saved[3]
              /\ playerStats' = f.saved[1]
              /\ holdings' >= SumOver(balances', Address)
              /\ (balances = [balances' EXCEPT ![f.sender] = 0]
                    /\ playerStats = playerStats')
                    => holdings' = holdings + f.bal]_vars

\* alice's transfer failed: her withdraw reverted and her balance is back
TransferFailedWitness ==
    /\ frames = <<>>
    /\ tx = [fn |-> "withdraw", sender |-> "alice", ok |-> FALSE, event |-> "none"]
    /\ balances["alice"] > 0
    /\ holdings >= balances["alice"]

\* C18: withdraw called by an address whose balance is 0 aborts before any
\* transfer: no transfer to an address begins while its balance is 0, and a
\* withdraw that ends without a transfer is one of a caller with balance 0,
\* it fails, emits nothing and leaves balances, stats and holdings as they were.
EmptyWithdrawAborts ==
    /\ [][\A a \in Address :
             balances[a] = 0
               => ~(Len(frames') > Len(frames) /\ Head(frames').sender = a)]_vars
    /\ [][(frames' = frames /\ tx'.fn = "withdraw")
            => /\ balances[tx'.sender] = 0
               /\ ~tx'.ok
               /\ tx'.event = "none"
               /\ balances' = balances
               /\ holdings' = holdings
               /\ playerStats' = playerStats]_vars

\* bob, who holds nothing, called withdraw while the contract holds alice's deposit
EmptyWithdrawWitness ==
    /\ frames = <<>>
    /\ tx = [fn |-> "withdraw", sender |-> "bob", ok |-> FALSE, event |-> "none"]
    /\ balances["bob"] = 0
    /\ balances["alice"] > 0
    /\ holdings > 0

\* the cards of a pool
PoolCards(pool) == {pool[i] : i \in 1 .. Len(pool)}

\* C19: in every battle state every card of the hand belongs to the card pool
\* of the character selected in the lobby: after the initial deal, the redraw
\* that ends a boss turn, every reroll and every restart.
HandInPool ==
    phase = "battle" =>
        \A i \in 1 .. HAND_SIZE :
            state.hand[i] \in PoolCards(CHARACTER_CARDS[selectedChar])

\* the result submissions issued by the task l
Posts(l) == IF "posts" \in DOMAIN l THEN l.posts ELSE 0

\* C20: a result submission is issued exactly once per match, at the
\* transition into the terminal state: the task that takes the match from not
\* over to over issues exactly one, and no other task (a card or a boss
\* attack that leaves the match open, a reroll, a click in a terminal state,
\* a failed fetch, a restart) issues any; so each match, the first as well as
\* one begun by restart, is submitted once when it ends and never before.
SubmittedOnce ==
    [][Posts(last') = (IF ~state.gameOver /\ state'.gameOver THEN 1 ELSE 0)]_vars

\* the boss attack ended the match and its result was submitted
SubmittedWitness ==
    /\ last.op = "hurtElapsed"
    /\ last.posts = 1
    /\ state.gameOver
    /\ state.winner = "boss"

\* the bodies of the result submissions issued by the task l
Bodies(l) == IF "bodies" \in DOMAIN l THEN l.bodies ELSE <<>>

\* C21: the result submitted when a match ends carries the outcome of the
\* terminal state: won is true exactly when the winner is the hero, and the
\* submitted heroHp and bossHp are the heroHp and bossHp of that state.
SubmissionMatchesState ==
    \A i \in 1 .. Len(Bodies(last)) :
        /\ Bodies(last)[i].won = (state.winner = "hero")
        /\ Bodies(last)[i].heroHp = state.heroHp
        /\ Bodies(last)[i].bossHp = state.bossHp

\* a task of the page without its voice
PageTask ==
    \/ \E char \in CharacterId : LobbyStart(char)
    \/ \E card \in Playable : PlayCard(card)
    \/ \E t \in turns : DelayElapsed(t) \/ FetchOk(t) \/ FetchFail(t) \/ HurtElapsed(t)
    \/ Reroll
    \/ Restart

\* the voice can take one more request
VoiceHasRoom == ttsEnabled => fetching < MaxFetching

\* C22: the voice cannot influence the game.  Whatever the speak calls do
\* (play, fail, throw on playback, or never answer), every step of the page
\* with its voice either leaves the page's state alone or is a task of the
\* page without voice, so the battle states follow each other as they do
\* with no voice at all; and no phase of a turn waits for the voice: the
\* delay, the fetch and the commit after the hurt pause can run whatever
\* requests are in flight and whatever is playing.
VoiceNeverInterferes ==
    /\ [][PageTask]_pageVars
    /\ [](\A t \in turns :
            /\ t.pc = "delay" => ENABLED (DelayElapsed(t) /\ UNCHANGED voiceVars)
            /\ t.pc = "fetch" => ENABLED (FetchOk(t) /\ UNCHANGED voiceVars)
            /\ (t.pc = "hurt" /\ VoiceHasRoom)
                  => ENABLED (HurtElapsed(t) /\ LogAppended(1)))

\* a turn ran to its end while the voice requests stayed unanswered
UnansweredVoiceWitness ==
    /\ last.op = "hurtElapsed"
    /\ ttsEnabled
    /\ fetching = MaxFetching
    /\ currentAudio = "null"
    /\ strays = 0

AdvertisedBoss(card) ==
    CASE card = "knights_strike" -> -15
      [] card = "berserk_rage" -> -30
      [] card = "iron_judgment" -> -20
      [] card = "phantom_strike" -> -25
      [] OTHER -> 0

AdvertisedHero(card) ==
    CASE card = "clerics_prayer" -> 15
      [] card = "berserk_rage" -> -10
      [] card = "fortress_stance" -> 5
      [] OTHER -> 0

AdvertisedGold(card) ==
    CASE card = "tax_peasantry" -> 15
      [] card = "phantom_strike" -> -5
      [] OTHER -> 0

AdvertisedShield(card) ==
    CASE card \in {"shield_wall", "fortress_stance"} -> "half"
      [] card = "smoke_veil" -> "full"
      [] OTHER -> "none"

\* C24: resolveCardEffect implements the advertised table for every card and
\* every input with hp in [0,100]: the boss hp, hero hp and gold change by
\* the card's amounts, hp staying within [0,100] (phantom_strike acting only
\* when its 5 gold are there), the shield flags are set by shield_wall,
\* fortress_stance (half) and smoke_veil (full) and by no other card, and
\* nothing else changes; the same call always returns the same result.
EffectTable ==
    (call.fn = "resolveCardEffect" /\ ret # NoCall) =>
        LET cur == call.current
            card == call.card
            acts == card # "phantom_strike" \/ cur.gold >= 5
            boss == cur.bossHp + (IF acts THEN AdvertisedBoss(card) ELSE 0)
            hero == cur.heroHp + AdvertisedHero(card)
        IN /\ ret = resolveCardEffect(card, cur)
           /\ ret.bossHp = (IF boss < 0 THEN 0 ELSE boss)
           /\ ret.heroHp = (IF hero < 0 THEN 0 ELSE IF hero > 100 THEN 100 ELSE hero)
           /\ ret.gold = cur.gold + (IF acts THEN AdvertisedGold(card) ELSE 0)
           /\ ret.isShielded = (IF AdvertisedShield(card) = "none"
                                THEN cur.isShielded ELSE TRUE)
           /\ ret.fullShield = (IF AdvertisedShield(card) = "none" THEN cur.fullShield
                                ELSE AdvertisedShield(card) = "full")
           /\ ret.bossDamaged = (acts /\ AdvertisedBoss(card) < 0)

\* fortress_stance played at full health under a full shield: the heal stops
\* at 100 and the shield is a half shield
FortressWitness ==
    /\ call.fn = "resolveCardEffect"
    /\ call.card = "fortress_stance"
    /\ ret # NoCall
    /\ call.current.heroHp = 100
    /\ call.current.isShielded /\ call.current.fullShield
    /\ ret.heroHp = 100
    /\ ret.isShielded /\ ~ret.fullShield

\* the turns for which a boss attack has been computed
Attacked(ts) == {t \in ts : "bossResult" \in DOMAIN t}

WinnerMatchesHp ==
    /\ [](state.gameOver =>
            /\ (state.winner = "hero") <=> (state.bossHp = 0)
            /\ (state.winner = "boss") <=> (state.heroHp = 0 /\ state.bossHp > 0))
    /\ [][
            /\ (last'.op = "playCard" /\ state'.heroHp = 0 /\ state'.bossHp = 0
                   /\ ~state.gameOver)
                 => (state'.gameOver /\ state'.winner = "hero")
            /\ (last'.op = "hurtElapsed") =>
                  /\ state'.bossHp = state.bossHp
                  /\ state.bossHp > 0
                  /\ (state'.gameOver) <=> (state'.heroHp = 0)
                  /\ (state'.gameOver) => (state'.winner = "boss")]_vars

\* berserk_rage brought both the boss and the hero to 0
DoubleKnockoutWitness ==
    /\ last.op = "playCard"
    /\ state.gameOver
    /\ state.heroHp = 0
    /\ state.bossHp = 0
    /\ state.winner = "hero"

\* C27: a shield does not outlive its turn: whenever no turn is in progress,
\* awaiting input or terminal, isShielded and fullShield are both false; and
\* fullShield is never set without isShielded, in the battle state and in
\* what a turn in flight carries.
ShieldWithinTurn ==
    /\ ~state.turnInProgress => (~state.isShielded /\ ~state.fullShield)
    /\ state.fullShield => state.isShielded
    /\ \A t \in turns :
          /\ t.result.fullShield => t.result.isShielded
          /\ t \in Attacked(turns) => (t.bossResult.fullShield => t.bossResult.isShielded)

\* a turn that raised a full shield is over: the attack was blocked, the
\* hero is unhurt and the shield is gone
FullShieldSpentWitness ==
    /\ last.op = "hurtElapsed"
    /\ last.shielded
    /\ state.heroHp = 100
    /\ ~state.turnInProgress
    /\ ~state.isShielded /\ ~state.fullShield

\* the ether the contract holds beyond what it owes its players
CollectedFees == holdings - SumOver(balances, Address)

\* C28: in every state of the gated contract, a transfer in progress
\* included, the holdings are the players' balances plus gameFee for each
\* game on record; so every positive balance can be paid in full, and ether
\* leaves the contract only as the whole balance of the account withdrawing
\* it, or when a failed transfer undoes the deposits made during it: no
\* step pays out the fees.
FeesStayIn ==
    /\ [](variant = "gated" =>
            /\ CollectedFees = gameFee * GamesRecorded
            /\ \A a \in Address : balances[a] > 0 => holdings >= balances[a])
    /\ [][(variant = "gated" /\ holdings' < holdings) =>
              \/ /\ Len(frames') = Len(frames) + 1
                 /\ LET f == Head(frames')
                    IN /\ f.bal = balances[f.sender]
                       /\ holdings' = holdings - f.bal
                       /\ balances' = [balances EXCEPT ![f.sender] = 0]
                 /\ playerStats' = playerStats
              \/ /\ frames # <<>>
                 /\ frames' = Tail(frames)
                 /\ ~tx'.ok
                 /\ <<playerStats', balances', holdings'>> = Head(frames).saved
                 /\ holdings' - SumOver(balances', Address) <= CollectedFees]_vars

\* the players have withdrawn everything and the fees of the recorded games
\* are still held
FeesLeftWitness ==
    /\ variant = "gated"
    /\ frames = <<>>
    /\ tx.fn = "withdraw" /\ tx.ok
    /\ GamesRecorded >= 1
    /\ SumOver(balances, Address) = 0
    /\ holdings = gameFee * GamesRecorded

\* C29: (refuted) a match whose cards could be played and that reached a
\* terminal outcome is recorded with the fee deducted: the operator's
\* recordGame for the player of the match never reverts.
MatchRecorded ==
    (tx.fn = "recordGame" /\ tx.sender = operator) => tx.ok

\* the audios created by speak that are playing
Playing == strays + (IF currentAudio = "playing" THEN 1 ELSE 0)

\* C30: (refuted) at most one speech audio plays at a time, and an audio
\* that plays is the one currentAudio refers to.
OneAudioAtATime ==
    /\ Playing <= 1
    /\ strays = 0

====
